---- MODULE Spec2Model ----
(***************************************************************************)
(* Disk Manager, Disk Scheduler, ARC replacer and Buffer Pool Manager of   *)
(* grimoire (src/backend/storage/disk_manager.rs, disk_scheduler.rs,       *)
(* src/backend/buffer/arc_replacer.rs, buffer_pool_manager.rs).            *)
(*                                                                         *)
(* A process is either a direct caller of the Disk Manager or the task     *)
(* that schedule() spawns for one request.  A process sits at a pc where   *)
(* the source awaits a lock, a permit or the file, and one action runs the *)
(* code from one such point to the next; the file operations of a call     *)
(* (open, seek, write_all or read_exact, sync_all) are one step.  A tokio   *)
(* RwLock that is taken and dropped inside one step has no holder in the   *)
(* state.  Two guards live across an await and have one: the free-slot     *)
(* lock (allocate_page waits for the offset table while holding it) and    *)
(* the write locks of the offset table and the capacity (allocate_page     *)
(* opens and resizes the file while holding both when the table is full).  *)
(***************************************************************************)
EXTENDS Integers, Sequences, FiniteSets, TLC

----------------------------------------------------------------------------
(* Program constants *)

GRIMOIRE_PAGE_SIZE == 4096

InitialCapacity == 128

DmPermitCount == 10

SchedPermitCount == 10

----------------------------------------------------------------------------
(* Bounds of the model *)

NumPages == 2

NumCallers == 2

MaxCalls == 4

NumRequests == 2

NumSchedulers == 2

MaxBatch == 2

ShortLen == 1

CrowdTasks == 12

CrowdDirect == 11

CrowdBatch == 3

NumFrames == 3

MaxReplacerSize == 2

PoolSize == 2

NumPoolPages == 3

MaxPins == 2

LoadTasks == 11

LoadDirect == 1

----------------------------------------------------------------------------
(* Inputs *)

PageIds == 1..NumPages

\* The fill bytes of the repository's tests (vec![42u8; 4096], vec![77u8; 4096]).
Fills == {42, 77}

\* A buffer vec![fill; len]; a read's destination starts as zeros.
Buffers == [len : {GRIMOIRE_PAGE_SIZE, ShortLen}, fill : Fills]

ReadBuffers == [len : {GRIMOIRE_PAGE_SIZE, ShortLen}, fill : {0}]

PageSized(bs) == {b \in bs : b.len = GRIMOIRE_PAGE_SIZE}

NoBuffer == [len |-> 0, fill |-> 0]

Callers == {<<"caller", i>> : i \in 1..NumCallers}

Tasks == {<<"task", r>> : r \in 1..NumRequests}

Procs == Callers \cup Tasks

NoProc == <<"none", 0>>

Schedulers == 1..NumSchedulers

NoResult == [op |-> "none", res |-> "none", page |-> 0, val |-> 0]

\* Mutant: an error is swallowed and the call reports Ok.
OutcomeAlwaysOk(o, r, p, v) == [op |-> o, res |-> "Ok", page |-> p, val |-> v]

Outcome(o, r, p, v) == [op |-> o, res |-> r, page |-> p, val |-> v]

RequestIds == 1..NumRequests

\* The DiskRequests a caller builds: a write carries the bytes to store, a
\* read a zeroed destination; nothing constrains the length of `data`.
DiskRequests ==
    {[is_write |-> TRUE, data |-> b, page_id |-> p] : b \in Buffers, p \in PageIds}
        \cup {[is_write |-> FALSE, data |-> b, page_id |-> p] : b \in ReadBuffers, p \in PageIds}

NoRequest == [is_write |-> FALSE, data |-> NoBuffer, page_id |-> 0]

\* A oneshot channel: no channel yet, open, holding the one value sent, or
\* closed because its Sender was dropped unused.
NoChannel == [state |-> "none", msg |-> NoResult]

OpenChannel == [state |-> "open", msg |-> NoResult]

TaskOf(r) == <<"task", r>>

CrowdPlaces == {"spawned", "dm_wait", "dm_io", "sending", "direct_wait", "direct_io"}

\* The places of a counted task or direct caller inside a Disk Manager call.
LockPlaces ==
    {"t_lookup", "t_free", "t_reuse", "t_fresh", "t_grow",
     "d_lookup", "d_free", "d_reuse", "d_fresh", "d_grow", "x_pages", "x_free"}

\* The counted holders of a lock.
AnyTask == <<"task", 0>>

AnyCaller == <<"caller", 0>>

\* The frame ids callers pass to the replacer.
FrameIds == 1..NumFrames

\* enum ArcStatus
ArcStatuses == {"MRU", "MFU", "MRUGhost", "MFUGhost"}

\* enum AccessType
AccessTypes == {"Scan", "Lookup", "Index", "Unknown"}

\* struct FrameStatus; frame_id is the key of the entry, and page_id is
\* written and read by no operation.
FrameStatus(e, st) == [evictable |-> e, arc_status |-> st]

NoArcRet == [op |-> "none", arg |-> 0, res |-> "none", val |-> 0]

ArcRet(o, a, r, v) == [op |-> o, arg |-> a, res |-> r, val |-> v]

\* The frames of the pool and the page ids its clients name.
PoolFrames == 1..PoolSize

PoolPageIds == 1..NumPoolPages

NoPoolRet == [op |-> "none", arg |-> 0, res |-> "none", val |-> 0]

PoolRet(o, a, r, v) == [op |-> o, arg |-> a, res |-> r, val |-> v]

----------------------------------------------------------------------------
VARIABLES
    pages,          \* DiskManager.pages: page id -> byte offset (HashMap)
    free_slots,     \* DiskManager.free_slots: Vec of freed offsets
    free_lock,      \* the process holding free_slots' write lock across an await
    table_lock,     \* the process holding the write locks of pages and page_capacity across an await
    page_capacity,  \* DiskManager.page_capacity
    stats,          \* DiskManager.stats: num_writes, num_reads, num_deletes
    dm_permits,     \* available permits of DiskManager.io_semaphore
    file,           \* the db file: byte offset -> fill byte of the page there
    pc,             \* position of each process
    page,           \* page_id argument of the running call
    buf,            \* page_data argument of the running call
    off,            \* the local `offset` of the running call
    result,         \* what the last call of the process returned
    calls,          \* number of direct calls begun
    committed,      \* history: page id -> bytes of its last undisturbed Ok write
    clean,          \* history: the running write or delete overlapped no other on its page
    expect,         \* history: bytes a running read has to return (0: none)
    raced,          \* history: two write_page calls were in flight together
    handed,         \* history: the offsets allocate_page has computed for appended pages
    requests_queue, \* DiskScheduler.requests_queue: VecDeque of request ids
    req,            \* the DiskRequest of each request id (NoRequest: not enqueued yet)
    sched_permits,  \* available permits of DiskScheduler.io_semaphore
    spc,            \* position of each schedule() call
    batch,          \* the requests a schedule() call drained and now joins
    sched_count,    \* the count argument of each running schedule() call
    chan,           \* the oneshot channel of each request
    sends,          \* history: results sent on each request's channel
    dequeues,       \* history: times each request was drained from the queue
    crowd,          \* anonymous tasks counted by position (permit model)
    replacer_size,  \* ArcReplacer.replacer_size
    mru_list,       \* ArcReplacer.mru_list: VecDeque of frame ids, front first
    mfu_list,       \* ArcReplacer.mfu_list
    mru_ghost_list, \* ArcReplacer.mru_ghost_list
    mfu_ghost_list, \* ArcReplacer.mfu_ghost_list
    pin_table,      \* ArcReplacer.pin_table: frame id -> FrameStatus
    arc_ret,        \* the last replacer call and what it returned
    page_table,     \* the pool's directory: page id -> frame id
    free_list,      \* the pool's free-frame list
    pin_count,      \* pin count of each frame
    is_dirty,       \* dirty flag of each frame
    target_p,       \* the adaptive target p of the replacement policy
    bpm_ret         \* the last pool call and what it returned

dmVars ==
    <<pages, free_slots, free_lock, table_lock, page_capacity, stats, dm_permits, file>>

procVars == <<pc, page, buf, off, result>>

histVars == <<committed, clean, expect, raced, handed>>

schedVars ==
    <<requests_queue, req, sched_permits, spc, batch, sched_count, chan, sends, dequeues>>

arcVars ==
    <<replacer_size, mru_list, mfu_list, mru_ghost_list, mfu_ghost_list, pin_table, arc_ret>>

poolVars == <<page_table, free_list, pin_count, is_dirty, target_p, bpm_ret>>

\* The state of the buffer layer, which no disk operation touches.
bufferVars == <<arcVars, poolVars>>

vars == <<dmVars, procVars, calls, histVars, schedVars, crowd, bufferVars>>

----------------------------------------------------------------------------
(* HashMap and Vec helpers *)

\* HashMap::insert
MapInsert(m, k, v) == [q \in DOMAIN m \cup {k} |-> IF q = k THEN v ELSE m[q]]

\* Mutant: the entry stays in the map.
MapRemoveKept(m, k) == m

\* HashMap::remove
MapRemove(m, k) == [q \in DOMAIN m \ {k} |-> m[q]]

\* HashMap::len
MapLen(m) == Cardinality(DOMAIN m)

\* Vec::pop: the element it returns and the vector it leaves.
Popped(s) == s[Len(s)]

\* Mutant: the top slot is read with last() and stays in the pool.
AfterPopKept(s) == s

AfterPop(s) == SubSeq(s, 1, Len(s) - 1)

\* The page at a byte offset of the db file; set_len zero-fills what was never written.
FileAt(f, o) == IF o \in DOMAIN f THEN f[o] ELSE 0

\* Mutant: allocate_page drops the free-slot guard before it waits for the
\* offset table, so the lock never excludes anyone.
FreeSlotsNeverLocked == TRUE

\* free_slots.write() completes only when no task holds the lock.
FreeSlotsUnlocked == free_lock = NoProc

\* Mutant: the offset table and the free-slot pool sit behind one lock, which
\* allocate_page takes a second time while it holds it.
TableSharesFreeSlotsLock == table_lock = NoProc /\ free_lock = NoProc

\* pages.read() and pages.write() complete only when no task holds the write lock.
TableUnlocked == table_lock = NoProc

\* Mutant: acquire returns at once, permit or not.
PermitAlways(n) == TRUE

\* Semaphore::acquire completes only when a permit is available.
PermitAvailable(n) == n > 0

\* Mutant: the permit is forgotten (mem::forget) instead of dropped.
ReleasePermitLeak(n) == n

\* Mutant: the permit is added back by hand (add_permits) and the guard is
\* dropped as well.
ReleasePermitTwice(n) == n + 2

\* Dropping the SemaphorePermit guard gives the permit back.
ReleasePermit(n) == n + 1

\* allocate_page: the offset of a page appended to the file.
FreshOffset(m) == MapLen(m) * GRIMOIRE_PAGE_SIZE

\* allocate_page: doubling of the capacity when the table is full.
GrownCapacity(m, cap) == IF MapLen(m) >= cap THEN cap * 2 ELSE cap

----------------------------------------------------------------------------
(* Positions *)

WritePcs == {"w_lookup", "a_free", "a_reuse", "a_fresh", "a_grow", "w_io", "w_stats"}

ReadPcs == {"r_lookup", "r_io", "r_stats"}

DeletePcs == {"d_free", "d_stats"}

\* Positions at which the process holds a permit of the Disk Manager's semaphore.
DmHolderPcs == WritePcs \cup ReadPcs

MutatorsOn(p) == {y \in Procs : pc[y] \in WritePcs \cup DeletePcs /\ page[y] = p}

ReadersOn(p) == {y \in Procs : pc[y] \in ReadPcs /\ page[y] = p}

----------------------------------------------------------------------------
\* ArcReplacer::new(num_frames): four empty lists and an empty table.
ArcNew(num_frames) ==
    /\ replacer_size = num_frames
    /\ mru_list = <<>>
    /\ mfu_list = <<>>
    /\ mru_ghost_list = <<>>
    /\ mfu_ghost_list = <<>>
    /\ pin_table = <<>>
    /\ arc_ret = NoArcRet

\* The pool at startup: an empty page table and every frame in the free list.
PoolNew ==
    /\ page_table = <<>>
    /\ free_list = [i \in 1..PoolSize |-> i]
    /\ pin_count = [f \in PoolFrames |-> 0]
    /\ is_dirty = [f \in PoolFrames |-> FALSE]
    /\ target_p = 0
    /\ bpm_ret = NoPoolRet

\* DiskManager::new and DiskScheduler::new.
InitDisk ==
    /\ pages = <<>>
    /\ free_slots = <<>>
    /\ free_lock = NoProc
    /\ table_lock = NoProc
    /\ page_capacity = InitialCapacity
    /\ stats = [num_writes |-> 0, num_reads |-> 0, num_deletes |-> 0]
    /\ dm_permits = DmPermitCount
    /\ file = <<>>
    /\ pc = [x \in Procs |-> IF x \in Callers THEN "idle" ELSE "none"]
    /\ page = [x \in Procs |-> 0]
    /\ buf = [x \in Procs |-> NoBuffer]
    /\ off = [x \in Procs |-> 0]
    /\ result = [x \in Procs |-> NoResult]
    /\ calls = 0
    /\ committed = [p \in PageIds |-> 0]
    /\ clean = [x \in Procs |-> FALSE]
    /\ expect = [x \in Procs |-> 0]
    /\ raced = FALSE
    /\ handed = {}
    /\ requests_queue = <<>>
    /\ req = [r \in RequestIds |-> NoRequest]
    /\ sched_permits = SchedPermitCount
    /\ spc = [s \in Schedulers |-> "idle"]
    /\ batch = [s \in Schedulers |-> {}]
    /\ sched_count = [s \in Schedulers |-> 0]
    /\ chan = [r \in RequestIds |-> NoChannel]
    /\ sends = [r \in RequestIds |-> 0]
    /\ dequeues = [r \in RequestIds |-> 0]
    /\ crowd = [k \in CrowdPlaces \cup LockPlaces |-> 0]

Init == InitDisk /\ ArcNew(MaxReplacerSize) /\ PoolNew

----------------------------------------------------------------------------
(* Entering and leaving a Disk Manager call *)

\* Direct callers are interchangeable threads: the next call is issued by the
\* idle caller of lowest number.
NextCaller(c) ==
    /\ pc[c] = "idle"
    /\ \A d \in Callers : d[2] < c[2] => pc[d] # "idle"

\* Where a process goes when its Disk Manager call returns: a direct caller is
\* idle again, a task goes on to callback.send.
AfterCall(x) == IF x \in Callers THEN "idle" ELSE "t_send"

Finish(x, r) ==
    /\ pc' = [pc EXCEPT ![x] = AfterCall(x)]
    /\ result' = [result EXCEPT ![x] = r]
    /\ page' = [page EXCEPT ![x] = 0]
    /\ buf' = [buf EXCEPT ![x] = NoBuffer]
    /\ off' = [off EXCEPT ![x] = 0]

\* History: a write or delete of page p starts.
NoteMutator(x, p) ==
    /\ committed' = [committed EXCEPT ![p] = 0]
    /\ clean' = [y \in Procs |->
                    IF y = x THEN MutatorsOn(p) = {}
                    ELSE IF y \in MutatorsOn(p) THEN FALSE ELSE clean[y]]
    /\ expect' = [y \in Procs |-> IF y \in ReadersOn(p) THEN 0 ELSE expect[y]]
    /\ UNCHANGED handed

\* History: a write_page call starts while another one runs.
NoteRace == raced' = (raced \/ \E y \in Procs : pc[y] \in WritePcs)

\* History: a read of page p starts.
NoteReader(x, p) ==
    /\ expect' = [expect EXCEPT ![x] = committed[p]]
    /\ UNCHANGED <<committed, clean, raced, handed>>

\* write_page from its entry until io_semaphore.acquire() has given a permit.
EnterWrite(x, p, b) ==
    /\ b.len = GRIMOIRE_PAGE_SIZE
    /\ PermitAvailable(dm_permits)
    /\ dm_permits' = dm_permits - 1
    /\ pc' = [pc EXCEPT ![x] = "w_lookup"]
    /\ page' = [page EXCEPT ![x] = p]
    /\ buf' = [buf EXCEPT ![x] = b]
    /\ result' = [result EXCEPT ![x] = NoResult]
    /\ NoteMutator(x, p)
    /\ NoteRace
    /\ UNCHANGED off

\* read_page from its entry until io_semaphore.acquire() has given a permit.
EnterRead(x, p, b) ==
    /\ b.len = GRIMOIRE_PAGE_SIZE
    /\ PermitAvailable(dm_permits)
    /\ dm_permits' = dm_permits - 1
    /\ pc' = [pc EXCEPT ![x] = "r_lookup"]
    /\ page' = [page EXCEPT ![x] = p]
    /\ buf' = [buf EXCEPT ![x] = b]
    /\ result' = [result EXCEPT ![x] = NoResult]
    /\ NoteReader(x, p)
    /\ UNCHANGED off

----------------------------------------------------------------------------
(* DiskManager::write_page and allocate_page *)

WriteBegin(c, p, b) ==
    /\ NextCaller(c)
    /\ calls < MaxCalls
    /\ calls' = calls + 1
    /\ EnterWrite(c, p, b)
    /\ UNCHANGED <<pages, free_slots, free_lock, table_lock, page_capacity, stats, file>>
    /\ UNCHANGED <<schedVars, crowd, bufferVars>>

WriteLookup(x) ==
    /\ pc[x] = "w_lookup"
    /\ TableUnlocked
    /\ IF page[x] \in DOMAIN pages
         THEN /\ off' = [off EXCEPT ![x] = pages[page[x]]]
              /\ pc' = [pc EXCEPT ![x] = "w_io"]
         ELSE /\ pc' = [pc EXCEPT ![x] = "a_free"]
              /\ UNCHANGED off
    /\ UNCHANGED <<dmVars, page, buf, result, calls, histVars, schedVars, crowd, bufferVars>>

\* allocate_page, the free-slot block: free_slots.write(), pop.
AllocPop(x) ==
    /\ pc[x] = "a_free"
    /\ FreeSlotsUnlocked
    /\ IF free_slots # <<>>
         THEN /\ off' = [off EXCEPT ![x] = Popped(free_slots)]
              /\ free_slots' = AfterPop(free_slots)
              /\ free_lock' = x
              /\ pc' = [pc EXCEPT ![x] = "a_reuse"]
         ELSE /\ pc' = [pc EXCEPT ![x] = "a_fresh"]
              /\ UNCHANGED <<off, free_slots, free_lock>>
    /\ UNCHANGED <<pages, table_lock, page_capacity, stats, dm_permits, file>>
    /\ UNCHANGED <<page, buf, result, calls, histVars, schedVars, crowd, bufferVars>>

\* allocate_page, reuse: pages.write(), insert, return (both guards dropped).
AllocReuse(x) ==
    /\ pc[x] = "a_reuse"
    /\ TableUnlocked
    /\ pages' = MapInsert(pages, page[x], off[x])
    /\ free_lock' = NoProc
    /\ pc' = [pc EXCEPT ![x] = "w_io"]
    /\ UNCHANGED <<free_slots, table_lock, page_capacity, stats, dm_permits, file>>
    /\ UNCHANGED <<page, buf, off, result, calls, histVars, schedVars, crowd, bufferVars>>

\* allocate_page, append: pages.write(), page_capacity.write(); a table with
\* room gets the mapping at once, a full one doubles the capacity and goes on
\* to grow the file with both write guards still held.
AllocFresh(x) ==
    /\ pc[x] = "a_fresh"
    /\ TableUnlocked
    /\ page_capacity' = GrownCapacity(pages, page_capacity)
    /\ IF MapLen(pages) >= page_capacity
         THEN /\ table_lock' = x
              /\ pc' = [pc EXCEPT ![x] = "a_grow"]
              /\ UNCHANGED <<off, pages, handed>>
         ELSE /\ off' = [off EXCEPT ![x] = FreshOffset(pages)]
              /\ pages' = MapInsert(pages, page[x], FreshOffset(pages))
              /\ handed' = handed \cup {FreshOffset(pages)}
              /\ pc' = [pc EXCEPT ![x] = "w_io"]
              /\ UNCHANGED table_lock
    /\ UNCHANGED <<free_slots, free_lock, stats, dm_permits, file>>
    /\ UNCHANGED <<page, buf, result, calls, committed, clean, expect, raced>>
    /\ UNCHANGED <<schedVars, crowd, bufferVars>>

\* allocate_page, growth: open and set_len under the guards of pages and
\* page_capacity (their results are ignored), then the insert and the return
\* that drops both guards.  set_len zero-fills, which FileAt already reads.
AllocGrow(x) ==
    /\ pc[x] = "a_grow"
    /\ table_lock = x
    /\ off' = [off EXCEPT ![x] = FreshOffset(pages)]
    /\ pages' = MapInsert(pages, page[x], FreshOffset(pages))
    /\ handed' = handed \cup {FreshOffset(pages)}
    /\ table_lock' = NoProc
    /\ pc' = [pc EXCEPT ![x] = "w_io"]
    /\ UNCHANGED <<free_slots, free_lock, page_capacity, stats, dm_permits, file>>
    /\ UNCHANGED <<page, buf, result, calls, committed, clean, expect, raced>>
    /\ UNCHANGED <<schedVars, crowd, bufferVars>>

\* open, seek, write_all, sync_all: the page is written, or a file operation
\* fails before any byte is written and the call returns IoError.
WriteIo(x) ==
    /\ pc[x] = "w_io"
    /\ \/ /\ file' = MapInsert(file, off[x], buf[x].fill)
          /\ pc' = [pc EXCEPT ![x] = "w_stats"]
          /\ UNCHANGED <<dm_permits, page, buf, off, result>>
       \/ /\ file' = file
          /\ dm_permits' = ReleasePermit(dm_permits)
          /\ Finish(x, Outcome("write", "IoError", page[x], 0))
    /\ UNCHANGED <<pages, free_slots, free_lock, table_lock, page_capacity, stats>>
    /\ UNCHANGED <<calls, histVars, schedVars, crowd, bufferVars>>

\* stats.write(), num_writes += 1, Ok(()).
WriteStats(x) ==
    /\ pc[x] = "w_stats"
    /\ stats' = [stats EXCEPT !.num_writes = @ + 1]
    /\ dm_permits' = ReleasePermit(dm_permits)
    /\ Finish(x, Outcome("write", "Ok", page[x], buf[x].fill))
    /\ committed' = [committed EXCEPT ![page[x]] = IF clean[x] THEN buf[x].fill ELSE @]
    /\ UNCHANGED <<pages, free_slots, free_lock, table_lock, page_capacity, file>>
    /\ UNCHANGED <<calls, clean, expect, raced, handed, schedVars, crowd, bufferVars>>

----------------------------------------------------------------------------
(* DiskManager::read_page *)

ReadBegin(c, p, b) ==
    /\ NextCaller(c)
    /\ calls < MaxCalls
    /\ calls' = calls + 1
    /\ EnterRead(c, p, b)
    /\ UNCHANGED <<pages, free_slots, free_lock, table_lock, page_capacity, stats, file>>
    /\ UNCHANGED <<schedVars, crowd, bufferVars>>

\* pages.read(), get, ok_or(PageNotFound)?
ReadLookup(x) ==
    /\ pc[x] = "r_lookup"
    /\ TableUnlocked
    /\ IF page[x] \in DOMAIN pages
         THEN /\ off' = [off EXCEPT ![x] = pages[page[x]]]
              /\ pc' = [pc EXCEPT ![x] = "r_io"]
              /\ UNCHANGED <<dm_permits, page, buf, result>>
         ELSE /\ dm_permits' = ReleasePermit(dm_permits)
              /\ Finish(x, Outcome("read", "PageNotFound", page[x], 0))
    /\ UNCHANGED <<pages, free_slots, free_lock, table_lock, page_capacity, stats, file>>
    /\ UNCHANGED <<calls, histVars, schedVars, crowd, bufferVars>>

\* open, seek, read_exact: the buffer receives the page, or a file operation fails.
ReadIo(x) ==
    /\ pc[x] = "r_io"
    /\ \/ /\ buf' = [buf EXCEPT ![x].fill = FileAt(file, off[x])]
          /\ pc' = [pc EXCEPT ![x] = "r_stats"]
          /\ UNCHANGED <<dm_permits, page, off, result>>
       \/ /\ dm_permits' = ReleasePermit(dm_permits)
          /\ Finish(x, Outcome("read", "IoError", page[x], 0))
    /\ UNCHANGED <<pages, free_slots, free_lock, table_lock, page_capacity, stats, file>>
    /\ UNCHANGED <<calls, histVars, schedVars, crowd, bufferVars>>

\* stats.write(), num_reads += 1, Ok(()).
ReadStats(x) ==
    /\ pc[x] = "r_stats"
    /\ stats' = [stats EXCEPT !.num_reads = @ + 1]
    /\ dm_permits' = ReleasePermit(dm_permits)
    /\ Finish(x, Outcome("read", "Ok", page[x], buf[x].fill))
    /\ UNCHANGED <<pages, free_slots, free_lock, table_lock, page_capacity, file>>
    /\ UNCHANGED <<calls, histVars, schedVars, crowd, bufferVars>>

----------------------------------------------------------------------------
(* DiskManager::delete_page *)

\* pages.write(), remove: the mapping goes and the guard is dropped, or PageNotFound.
DeleteRemove(c, p) ==
    /\ NextCaller(c)
    /\ calls < MaxCalls
    /\ calls' = calls + 1
    /\ TableUnlocked
    /\ NoteMutator(c, p)
    /\ UNCHANGED raced
    /\ IF p \in DOMAIN pages
         THEN /\ pages' = MapRemove(pages, p)
              /\ off' = [off EXCEPT ![c] = pages[p]]
              /\ page' = [page EXCEPT ![c] = p]
              /\ pc' = [pc EXCEPT ![c] = "d_free"]
              /\ result' = [result EXCEPT ![c] = NoResult]
         ELSE /\ result' = [result EXCEPT ![c] = Outcome("delete", "PageNotFound", p, 0)]
              /\ UNCHANGED <<pages, off, page, pc>>
    /\ UNCHANGED <<free_slots, free_lock, table_lock, page_capacity, stats, dm_permits, file>>
    /\ UNCHANGED <<buf, schedVars, crowd, bufferVars>>

\* free_slots.write(), push.
DeletePush(c) ==
    /\ pc[c] = "d_free"
    /\ FreeSlotsUnlocked
    /\ free_slots' = Append(free_slots, off[c])
    /\ pc' = [pc EXCEPT ![c] = "d_stats"]
    /\ UNCHANGED <<pages, free_lock, table_lock, page_capacity, stats, dm_permits, file>>
    /\ UNCHANGED <<page, buf, off, result, calls, histVars, schedVars, crowd, bufferVars>>

\* stats.write(), num_deletes += 1, Ok(()).
DeleteStats(c) ==
    /\ pc[c] = "d_stats"
    /\ stats' = [stats EXCEPT !.num_deletes = @ + 1]
    /\ Finish(c, Outcome("delete", "Ok", page[c], 0))
    /\ UNCHANGED <<pages, free_slots, free_lock, table_lock, page_capacity, dm_permits, file>>
    /\ UNCHANGED <<calls, histVars, schedVars, crowd, bufferVars>>

----------------------------------------------------------------------------
(* Steps of a running Disk Manager call *)

DmStep(x) ==
    \/ WriteLookup(x)
    \/ AllocPop(x)
    \/ AllocReuse(x)
    \/ AllocFresh(x)
    \/ WriteIo(x)
    \/ WriteStats(x)
    \/ ReadLookup(x)
    \/ ReadIo(x)
    \/ ReadStats(x)

DeleteStep(c) ==
    \/ DeletePush(c)
    \/ DeleteStats(c)

(* Direct callers use one Disk Manager concurrently. *)
Next ==
    \/ \E c \in Callers, p \in PageIds, b \in PageSized(Buffers) : WriteBegin(c, p, b)
    \/ \E c \in Callers, p \in PageIds, b \in PageSized(ReadBuffers) : ReadBegin(c, p, b)
    \/ \E c \in Callers, p \in PageIds : DeleteRemove(c, p)
    \/ \E c \in Callers : DmStep(c) \/ DeleteStep(c)

Spec == Init /\ [][Next]_vars

----------------------------------------------------------------------------
(* Direct callers that write distinct pages concurrently: write_page calls *)
(* overlap only when they address different pages, and a read_page or      *)
(* delete_page call runs with no other call in flight.                     *)

Quiet == \A x \in Procs : pc[x] \in {"idle", "none"}

OnlyWritesRunning == \A x \in Procs : pc[x] \in WritePcs \cup {"idle", "none"}

BatchWrite(c, p, b) == OnlyWritesRunning /\ MutatorsOn(p) = {} /\ WriteBegin(c, p, b)

LoneRead(c, p, b) == Quiet /\ ReadBegin(c, p, b)

LoneDelete(c, p) == Quiet /\ DeleteRemove(c, p)

NextBatch ==
    \/ \E c \in Callers, p \in PageIds, b \in PageSized(Buffers) : BatchWrite(c, p, b)
    \/ \E c \in Callers, p \in PageIds, b \in PageSized(ReadBuffers) : LoneRead(c, p, b)
    \/ \E c \in Callers, p \in PageIds : LoneDelete(c, p)
    \/ \E c \in Callers : DmStep(c) \/ DeleteStep(c)

SpecBatch == Init /\ [][NextBatch]_vars

----------------------------------------------------------------------------
(* One caller at a time: every call runs to its return before the next.    *)

LoneWrite(c, p, b) == Quiet /\ WriteBegin(c, p, b)

NextSeq ==
    \/ \E c \in Callers, p \in PageIds, b \in PageSized(Buffers) : LoneWrite(c, p, b)
    \/ \E c \in Callers, p \in PageIds, b \in PageSized(ReadBuffers) : LoneRead(c, p, b)
    \/ \E c \in Callers, p \in PageIds : LoneDelete(c, p)
    \/ \E c \in Callers : DmStep(c) \/ DeleteStep(c)

SpecSeq == Init /\ [][NextSeq]_vars

----------------------------------------------------------------------------
(* DiskScheduler: enqueue, schedule and the task spawned for each request  *)

NumEnqueued == Cardinality({r \in RequestIds : req[r] # NoRequest})

Min(a, b) == IF a < b THEN a ELSE b

\* VecDeque::drain(0..n): the requests taken from the front and the rest.
Drained(q, n) == {q[i] : i \in 1..n}

\* Mutant: drain(..) empties the queue whatever the count.
AfterDrainAll(q, n) == <<>>

AfterDrain(q, n) == SubSeq(q, n + 1, Len(q))

TaskEnded(r) == pc[TaskOf(r)] \in {"done", "panicked"}

\* enqueue: requests_queue.write(), push_back.
Enqueue(d) ==
    /\ NumEnqueued < NumRequests
    /\ req' = [req EXCEPT ![NumEnqueued + 1] = d]
    /\ chan' = [chan EXCEPT ![NumEnqueued + 1] = OpenChannel]
    /\ requests_queue' = Append(requests_queue, NumEnqueued + 1)
    /\ UNCHANGED <<sched_permits, spc, batch, sched_count, sends, dequeues>>
    /\ UNCHANGED <<dmVars, procVars, calls, histVars, crowd, bufferVars>>

\* schedule, first half: requests_queue.write(), drain min(count, len) requests
\* from the front, drop the guard, tokio::spawn one task per request.
ScheduleDrain(s, count) ==
    /\ spc[s] = "idle"
    /\ LET n == Min(count, Len(requests_queue))
           reqs == Drained(requests_queue, n)
       IN  /\ requests_queue' = AfterDrain(requests_queue, n)
           /\ batch' = [batch EXCEPT ![s] = reqs]
           /\ dequeues' = [r \in RequestIds |-> IF r \in reqs THEN dequeues[r] + 1 ELSE dequeues[r]]
           /\ pc' = [x \in Procs |-> IF x \in Tasks /\ x[2] \in reqs THEN "spawned" ELSE pc[x]]
    /\ spc' = [spc EXCEPT ![s] = "joining"]
    /\ sched_count' = [sched_count EXCEPT ![s] = count]
    /\ UNCHANGED <<req, sched_permits, chan, sends>>
    /\ UNCHANGED <<dmVars, page, buf, off, result, calls, histVars, crowd, bufferVars>>

\* schedule, second half: every handle has been awaited (a JoinError is
\* ignored), Ok(()).
ScheduleJoin(s) ==
    /\ spc[s] = "joining"
    /\ \A r \in batch[s] : TaskEnded(r)
    /\ spc' = [spc EXCEPT ![s] = "idle"]
    /\ batch' = [batch EXCEPT ![s] = {}]
    /\ sched_count' = [sched_count EXCEPT ![s] = 0]
    /\ UNCHANGED <<requests_queue, req, sched_permits, chan, sends, dequeues>>
    /\ UNCHANGED <<dmVars, procVars, calls, histVars, crowd, bufferVars>>

\* The spawned task: semaphore.acquire(), then the entry of write_page or
\* read_page, whose size check panics on a buffer that is not one page long.
\* The panic unwinds the task: the permit guard and the request, with its
\* callback Sender, are dropped.
TaskAcquire(t) ==
    /\ pc[t] = "spawned"
    /\ PermitAvailable(sched_permits)
    /\ IF req[t[2]].data.len = GRIMOIRE_PAGE_SIZE
         THEN /\ sched_permits' = sched_permits - 1
              /\ pc' = [pc EXCEPT ![t] = "t_enter"]
              /\ UNCHANGED chan
         ELSE /\ sched_permits' = ReleasePermit(sched_permits - 1)
              /\ pc' = [pc EXCEPT ![t] = "panicked"]
              /\ chan' = [chan EXCEPT ![t[2]].state = "closed"]
    /\ UNCHANGED <<requests_queue, req, spc, batch, sched_count, sends, dequeues>>
    /\ UNCHANGED <<dmVars, page, buf, off, result, calls, histVars, crowd, bufferVars>>

\* The task calls manager.write_page or manager.read_page with the request's
\* page id and data.
TaskEnter(t) ==
    /\ pc[t] = "t_enter"
    /\ IF req[t[2]].is_write
         THEN EnterWrite(t, req[t[2]].page_id, req[t[2]].data)
         ELSE EnterRead(t, req[t[2]].page_id, req[t[2]].data)
    /\ UNCHANGED <<pages, free_slots, free_lock, table_lock, page_capacity, stats, file>>
    /\ UNCHANGED <<calls, schedVars, crowd, bufferVars>>

\* callback.send(result); the task ends and its permit guard is dropped.
TaskSend(t) ==
    /\ pc[t] = "t_send"
    /\ chan' = [chan EXCEPT ![t[2]] = [state |-> "sent", msg |-> result[t]]]
    /\ sends' = [sends EXCEPT ![t[2]] = @ + 1]
    /\ sched_permits' = ReleasePermit(sched_permits)
    /\ pc' = [pc EXCEPT ![t] = "done"]
    /\ UNCHANGED <<requests_queue, req, spc, batch, sched_count, dequeues>>
    /\ UNCHANGED <<dmVars, page, buf, off, result, calls, histVars, crowd, bufferVars>>

\* The steps of a task inside the Disk Manager.  delete_page is not reachable
\* through the scheduler, so the free-slot pool stays empty and allocate_page
\* always appends.
TaskDmStep(t) ==
    \/ WriteLookup(t)
    \/ AllocPop(t)
    \/ AllocFresh(t)
    \/ WriteIo(t)
    \/ WriteStats(t)
    \/ ReadLookup(t)
    \/ ReadIo(t)
    \/ ReadStats(t)

(* Callers enqueue requests while schedule() calls run concurrently. *)
NextSched ==
    \/ \E d \in DiskRequests : Enqueue(d)
    \/ \E s \in Schedulers, count \in 0..MaxBatch : ScheduleDrain(s, count)
    \/ \E s \in Schedulers : ScheduleJoin(s)
    \/ \E t \in Tasks : TaskAcquire(t) \/ TaskEnter(t) \/ TaskDmStep(t) \/ TaskSend(t)

SpecSched == Init /\ [][NextSched]_vars

----------------------------------------------------------------------------
(* start_worker_thread: each driver loops over schedule(count_load); the   *)
(* 50 ms sleep between two rounds changes no state.  Driver s runs with    *)
(* count_load = s.  The tokio runtime polls every spawned task that can    *)
(* make progress and the driver thread never exits, hence weak fairness of *)
(* every driver and task step.                                             *)

CountLoad(s) == s

TaskStep(t) == TaskAcquire(t) \/ TaskEnter(t) \/ TaskDmStep(t) \/ TaskSend(t)

DriverStep(s) == ScheduleDrain(s, CountLoad(s)) \/ ScheduleJoin(s)

\* The requests of this specification address one page.
LiveRequests == {d \in DiskRequests : d.page_id = 1 /\ d.data.fill \in {0, 42}}

NextLive ==
    \/ \E d \in LiveRequests : Enqueue(d)
    \/ \E s \in Schedulers : DriverStep(s)
    \/ \E t \in Tasks : TaskStep(t)

SpecLive ==
    /\ Init
    /\ [][NextLive]_vars
    /\ \A s \in Schedulers : WF_vars(DriverStep(s))
    /\ \A t \in Tasks : WF_vars(TaskStep(t))

----------------------------------------------------------------------------
(* The two semaphores under load.  Tasks and direct callers are counted by *)
(* the place they are at: a task is spawned (waiting for the scheduler's   *)
(* permit), dm_wait (holding it, waiting for the Disk Manager's permit),   *)
(* dm_io (holding both, inside write_page or read_page) or sending (the    *)
(* call returned, callback.send is next); a direct caller is direct_wait   *)
(* or direct_io.                                                           *)

Move(from, to) == [crowd EXCEPT ![from] = @ - 1, ![to] = @ + 1]

TasksAlive == crowd["spawned"] + crowd["dm_wait"] + crowd["dm_io"] + crowd["sending"]

DirectAlive == crowd["direct_wait"] + crowd["direct_io"]

\* What the counted steps leave alone: the pages, the file and the queue.
uncountedVars ==
    <<pages, free_slots, free_lock, table_lock, page_capacity, stats, file, procVars, calls,
      histVars, requests_queue, req, spc, batch, sched_count, chan, sends, dequeues,
      bufferVars>>

\* schedule(count) spawns one task per drained request.
SpawnBatch(n) ==
    /\ TasksAlive + n <= CrowdTasks
    /\ crowd' = [crowd EXCEPT !["spawned"] = @ + n]
    /\ UNCHANGED <<sched_permits, dm_permits, uncountedVars>>

\* semaphore.acquire() in the task, which goes on to the Disk Manager.
CrowdAcquire ==
    /\ crowd["spawned"] > 0
    /\ PermitAvailable(sched_permits)
    /\ sched_permits' = sched_permits - 1
    /\ crowd' = Move("spawned", "dm_wait")
    /\ UNCHANGED <<dm_permits, uncountedVars>>

\* semaphore.acquire() in a task whose buffer fails the size check: the panic
\* drops the permit guard at once.
CrowdPanic ==
    /\ crowd["spawned"] > 0
    /\ PermitAvailable(sched_permits)
    /\ sched_permits' = ReleasePermit(sched_permits - 1)
    /\ crowd' = [crowd EXCEPT !["spawned"] = @ - 1]
    /\ UNCHANGED <<dm_permits, uncountedVars>>

\* io_semaphore.acquire() in write_page or read_page, called by a task.
CrowdEnter ==
    /\ crowd["dm_wait"] > 0
    /\ PermitAvailable(dm_permits)
    /\ dm_permits' = dm_permits - 1
    /\ crowd' = Move("dm_wait", "dm_io")
    /\ UNCHANGED <<sched_permits, uncountedVars>>

\* write_page or read_page returns to the task: its permit guard is dropped.
CrowdReturn ==
    /\ crowd["dm_io"] > 0
    /\ dm_permits' = ReleasePermit(dm_permits)
    /\ crowd' = Move("dm_io", "sending")
    /\ UNCHANGED <<sched_permits, uncountedVars>>

\* callback.send; the task ends and its permit guard is dropped.
CrowdEnd ==
    /\ crowd["sending"] > 0
    /\ sched_permits' = ReleasePermit(sched_permits)
    /\ crowd' = [crowd EXCEPT !["sending"] = @ - 1]
    /\ UNCHANGED <<dm_permits, uncountedVars>>

\* A direct caller calls write_page or read_page.
DirectCall ==
    /\ DirectAlive < CrowdDirect
    /\ crowd' = [crowd EXCEPT !["direct_wait"] = @ + 1]
    /\ UNCHANGED <<sched_permits, dm_permits, uncountedVars>>

\* io_semaphore.acquire() in write_page or read_page, called directly.
DirectEnter ==
    /\ crowd["direct_wait"] > 0
    /\ PermitAvailable(dm_permits)
    /\ dm_permits' = dm_permits - 1
    /\ crowd' = Move("direct_wait", "direct_io")
    /\ UNCHANGED <<sched_permits, uncountedVars>>

\* write_page or read_page returns to the direct caller.
DirectReturn ==
    /\ crowd["direct_io"] > 0
    /\ dm_permits' = ReleasePermit(dm_permits)
    /\ crowd' = [crowd EXCEPT !["direct_io"] = @ - 1]
    /\ UNCHANGED <<sched_permits, uncountedVars>>

NextPermits ==
    \/ \E n \in 1..CrowdBatch : SpawnBatch(n)
    \/ CrowdAcquire
    \/ CrowdPanic
    \/ CrowdEnter
    \/ CrowdReturn
    \/ CrowdEnd
    \/ DirectCall
    \/ DirectEnter
    \/ DirectReturn

SpecPermits == Init /\ [][NextPermits]_vars

----------------------------------------------------------------------------
(* A Disk Manager whose offset table is full.  DiskManager::new sets the   *)
(* capacity to InitialCapacity pages; after that many write_page calls of  *)
(* distinct new pages, run one after the other, the table holds            *)
(* InitialCapacity mappings at consecutive offsets and the next new page   *)
(* makes allocate_page grow the file.  The stored pages are the last of    *)
(* the callers' page ids and the ids after it, all filled like the pages   *)
(* of test_concurrent_writes.                                              *)

StoredPageIds == NumPages..(NumPages + InitialCapacity - 1)

StoredOffset(p) == (p - NumPages) * GRIMOIRE_PAGE_SIZE

InitFull ==
    /\ pages = [p \in StoredPageIds |-> StoredOffset(p)]
    /\ free_slots = <<>>
    /\ free_lock = NoProc
    /\ table_lock = NoProc
    /\ page_capacity = InitialCapacity
    /\ stats = [num_writes |-> InitialCapacity, num_reads |-> 0, num_deletes |-> 0]
    /\ dm_permits = DmPermitCount
    /\ file = [o \in {StoredOffset(p) : p \in StoredPageIds} |-> 42]
    /\ pc = [x \in Procs |-> IF x \in Callers THEN "idle" ELSE "none"]
    /\ page = [x \in Procs |-> 0]
    /\ buf = [x \in Procs |-> NoBuffer]
    /\ off = [x \in Procs |-> 0]
    /\ result = [x \in Procs |-> NoResult]
    /\ calls = 0
    /\ committed = [p \in PageIds |-> IF p \in StoredPageIds THEN 42 ELSE 0]
    /\ clean = [x \in Procs |-> FALSE]
    /\ expect = [x \in Procs |-> 0]
    /\ raced = FALSE
    /\ handed = {StoredOffset(p) : p \in StoredPageIds}
    /\ requests_queue = <<>>
    /\ req = [r \in RequestIds |-> NoRequest]
    /\ sched_permits = SchedPermitCount
    /\ spc = [s \in Schedulers |-> "idle"]
    /\ batch = [s \in Schedulers |-> {}]
    /\ sched_count = [s \in Schedulers |-> 0]
    /\ chan = [r \in RequestIds |-> NoChannel]
    /\ sends = [r \in RequestIds |-> 0]
    /\ dequeues = [r \in RequestIds |-> 0]
    /\ crowd = [k \in CrowdPlaces \cup LockPlaces |-> 0]

InitGrow == InitFull /\ ArcNew(MaxReplacerSize) /\ PoolNew

(* Direct callers use the full Disk Manager concurrently. *)
NextGrow ==
    \/ \E c \in Callers, p \in PageIds, b \in PageSized(Buffers) : WriteBegin(c, p, b)
    \/ \E c \in Callers, p \in PageIds, b \in PageSized(ReadBuffers) : ReadBegin(c, p, b)
    \/ \E c \in Callers, p \in PageIds : DeleteRemove(c, p)
    \/ \E c \in Callers : DmStep(c) \/ AllocGrow(c) \/ DeleteStep(c)

SpecGrow == InitGrow /\ [][NextGrow]_vars

----------------------------------------------------------------------------
(* The semaphores and the locks under load.  More tasks than the scheduler *)
(* has permits, and a direct caller beside them, are counted by the place  *)
(* they are at.  Inside write_page or read_page a process is at lookup     *)
(* (waiting for the offset table), free (waiting for the free-slot pool),  *)
(* reuse (holding the free-slot pool, waiting for the offset table), fresh *)
(* (waiting for the offset table and the capacity), grow (holding both,    *)
(* opening and resizing the file) or at the page I/O (dm_io, direct_io);   *)
(* a delete_page call is x_pages or x_free.  What a lookup finds, whether  *)
(* a slot is free and whether the table is full are not counted: every     *)
(* branch of the code is a possible step.                                  *)

\* The places of the two kinds of process.
PlaceOf ==
    [t |-> [wait |-> "dm_wait", lookup |-> "t_lookup", free |-> "t_free", reuse |-> "t_reuse",
            fresh |-> "t_fresh", grow |-> "t_grow", io |-> "dm_io", holder |-> AnyTask],
     d |-> [wait |-> "direct_wait", lookup |-> "d_lookup", free |-> "d_free", reuse |-> "d_reuse",
            fresh |-> "d_fresh", grow |-> "d_grow", io |-> "direct_io", holder |-> AnyCaller]]

Kinds == DOMAIN PlaceOf

TaskPlaces ==
    {"spawned", "dm_wait", "t_lookup", "t_free", "t_reuse", "t_fresh", "t_grow", "dm_io", "sending"}

CallerPlaces ==
    {"direct_wait", "d_lookup", "d_free", "d_reuse", "d_fresh", "d_grow", "direct_io",
     "x_pages", "x_free"}

RECURSIVE CountAt(_)
CountAt(places) ==
    IF places = {} THEN 0
    ELSE LET k == CHOOSE k \in places : TRUE IN crowd[k] + CountAt(places \ {k})

\* What the counted steps with locks leave alone.
unlockedVars ==
    <<pages, free_slots, page_capacity, stats, file, procVars, calls, histVars,
      requests_queue, req, spc, batch, sched_count, chan, sends, dequeues, bufferVars>>

\* Leaving the place `from`: a task goes on to callback.send, a direct caller
\* is gone.
Returned(k, from) ==
    IF k = "t" THEN Move(from, "sending") ELSE [crowd EXCEPT ![from] = @ - 1]

\* schedule(count) spawns one task per drained request.
LoadSpawn(n) ==
    /\ CountAt(TaskPlaces) + n <= LoadTasks
    /\ crowd' = [crowd EXCEPT !["spawned"] = @ + n]
    /\ UNCHANGED <<sched_permits, dm_permits, uncountedVars>>

\* A direct caller calls write_page or read_page.
LoadCall ==
    /\ CountAt(CallerPlaces) < LoadDirect
    /\ crowd' = [crowd EXCEPT !["direct_wait"] = @ + 1]
    /\ UNCHANGED <<sched_permits, dm_permits, uncountedVars>>

\* io_semaphore.acquire() in write_page or read_page.
LoadEnter(k) ==
    /\ crowd[PlaceOf[k].wait] > 0
    /\ PermitAvailable(dm_permits)
    /\ dm_permits' = dm_permits - 1
    /\ crowd' = Move(PlaceOf[k].wait, PlaceOf[k].lookup)
    /\ UNCHANGED <<sched_permits, uncountedVars>>

\* pages.read(), get: the offset is found (page I/O is next), write_page
\* finds none (allocate_page is next) or read_page returns PageNotFound.
LoadLookup(k) ==
    /\ crowd[PlaceOf[k].lookup] > 0
    /\ TableUnlocked
    /\ \/ /\ crowd' = Move(PlaceOf[k].lookup, PlaceOf[k].io)
          /\ UNCHANGED dm_permits
       \/ /\ crowd' = Move(PlaceOf[k].lookup, PlaceOf[k].free)
          /\ UNCHANGED dm_permits
       \/ /\ crowd' = Returned(k, PlaceOf[k].lookup)
          /\ dm_permits' = ReleasePermit(dm_permits)
    /\ UNCHANGED <<sched_permits, uncountedVars>>

\* allocate_page, the free-slot block: free_slots.write(), pop.
LoadPop(k) ==
    /\ crowd[PlaceOf[k].free] > 0
    /\ FreeSlotsUnlocked
    /\ \/ /\ crowd' = Move(PlaceOf[k].free, PlaceOf[k].reuse)
          /\ free_lock' = PlaceOf[k].holder
       \/ /\ crowd' = Move(PlaceOf[k].free, PlaceOf[k].fresh)
          /\ UNCHANGED free_lock
    /\ UNCHANGED <<table_lock, sched_permits, dm_permits, unlockedVars>>

\* allocate_page, reuse: pages.write(), insert, return (both guards dropped).
LoadReuse(k) ==
    /\ crowd[PlaceOf[k].reuse] > 0
    /\ TableUnlocked
    /\ crowd' = Move(PlaceOf[k].reuse, PlaceOf[k].io)
    /\ free_lock' = NoProc
    /\ UNCHANGED <<table_lock, sched_permits, dm_permits, unlockedVars>>

\* allocate_page, append: pages.write(), page_capacity.write(); the insert, or
\* the growth of a full table under both guards.
LoadFresh(k) ==
    /\ crowd[PlaceOf[k].fresh] > 0
    /\ TableUnlocked
    /\ \/ /\ crowd' = Move(PlaceOf[k].fresh, PlaceOf[k].io)
          /\ UNCHANGED table_lock
       \/ /\ crowd' = Move(PlaceOf[k].fresh, PlaceOf[k].grow)
          /\ table_lock' = PlaceOf[k].holder
    /\ UNCHANGED <<free_lock, sched_permits, dm_permits, unlockedVars>>

\* allocate_page, growth: open, set_len, insert, return (both guards dropped).
LoadGrow(k) ==
    /\ crowd[PlaceOf[k].grow] > 0
    /\ crowd' = Move(PlaceOf[k].grow, PlaceOf[k].io)
    /\ table_lock' = NoProc
    /\ UNCHANGED <<free_lock, sched_permits, dm_permits, unlockedVars>>

\* The page I/O and the statistics; the call returns Ok or IoError and its
\* permit guard is dropped.
LoadReturn(k) ==
    /\ crowd[PlaceOf[k].io] > 0
    /\ crowd' = Returned(k, PlaceOf[k].io)
    /\ dm_permits' = ReleasePermit(dm_permits)
    /\ UNCHANGED <<sched_permits, uncountedVars>>

\* A direct caller calls delete_page, which takes no permit.
LoadDeleteCall ==
    /\ CountAt(CallerPlaces) < LoadDirect
    /\ crowd' = [crowd EXCEPT !["x_pages"] = @ + 1]
    /\ UNCHANGED <<sched_permits, dm_permits, uncountedVars>>

\* delete_page: pages.write(), remove; the guard is dropped before the
\* free-slot pool is locked, or the call returns PageNotFound.
LoadDeleteRemove ==
    /\ crowd["x_pages"] > 0
    /\ TableUnlocked
    /\ \/ crowd' = Move("x_pages", "x_free")
       \/ crowd' = [crowd EXCEPT !["x_pages"] = @ - 1]
    /\ UNCHANGED <<sched_permits, dm_permits, uncountedVars>>

\* delete_page: free_slots.write(), push, the statistics, Ok(()).
LoadDeletePush ==
    /\ crowd["x_free"] > 0
    /\ FreeSlotsUnlocked
    /\ crowd' = [crowd EXCEPT !["x_free"] = @ - 1]
    /\ UNCHANGED <<sched_permits, dm_permits, uncountedVars>>

\* A step of an operation that has started.
LoadProgress ==
    \/ CrowdAcquire
    \/ CrowdPanic
    \/ CrowdEnd
    \/ \E k \in Kinds : LoadEnter(k)
    \/ \E k \in Kinds : LoadLookup(k)
    \/ \E k \in Kinds : LoadPop(k)
    \/ \E k \in Kinds : LoadReuse(k)
    \/ \E k \in Kinds : LoadFresh(k)
    \/ \E k \in Kinds : LoadGrow(k)
    \/ \E k \in Kinds : LoadReturn(k)
    \/ LoadDeleteRemove
    \/ LoadDeletePush

NextLoad ==
    \/ \E n \in 1..CrowdBatch : LoadSpawn(n)
    \/ LoadCall
    \/ LoadDeleteCall
    \/ LoadProgress

SpecLoad == Init /\ [][NextLoad]_vars

----------------------------------------------------------------------------
(* ArcReplacer.  Every method takes &mut self (size: &self), so a call     *)
(* runs alone from entry to return and is one step.  No method of the      *)
(* source admits a frame (record_access has an empty body), so the         *)
(* replacer a call works on is an input: the specification starts from     *)
(* every replacer, within the bounds, in which each tracked frame is once  *)
(* in the list its status names and in no other, the state that evict,     *)
(* remove, set_keep and set_evicted keep.                                  *)

Tracked == DOMAIN pin_table

\* The lists and the table of the replacer as one value.
Arc ==
    [mru_list |-> mru_list, mfu_list |-> mfu_list, mru_ghost_list |-> mru_ghost_list,
     mfu_ghost_list |-> mfu_ghost_list, pin_table |-> pin_table]

\* The lists and the table a call leaves.
BecomeArc(r) ==
    /\ mru_list' = r.mru_list
    /\ mfu_list' = r.mfu_list
    /\ mru_ghost_list' = r.mru_ghost_list
    /\ mfu_ghost_list' = r.mfu_ghost_list
    /\ pin_table' = r.pin_table

\* Mutant: pop_front in place of remove(idx).
RemoveFront(s, i) == Tail(s)

\* VecDeque::remove(idx)
RemoveAt(s, i) == SubSeq(s, 1, i - 1) \o SubSeq(s, i + 1, Len(s))

\* iter().position(|&id| id == f): the first index holding f, 0 for None.
Position(s, f) ==
    IF \E i \in 1..Len(s) : s[i] = f
      THEN CHOOSE i \in 1..Len(s) : s[i] = f /\ \A j \in 1..(i - 1) : s[j] # f
      ELSE 0

\* Mutant: the frame is left in its list.
WithoutNothing(s, f) == s

\* remove: the list without its first f.
Without(s, f) == IF Position(s, f) = 0 THEN s ELSE RemoveAt(s, Position(s, f))

\* Mutant: the scan takes the first tracked frame, evictable or not.
ScanTakesPinned(t, s, i) == s[i] \in DOMAIN t

\* evict: the test the scan makes of the frame at index i.
ScanTakes(t, s, i) == s[i] \in DOMAIN t /\ t[s[i]].evictable

\* Mutant: the scan runs from the most-recently-used end.
ScanStopFromBack(t, s) ==
    IF \E i \in 1..Len(s) : ScanTakes(t, s, i)
      THEN CHOOSE i \in 1..Len(s) :
              ScanTakes(t, s, i) /\ \A j \in (i + 1)..Len(s) : ~ScanTakes(t, s, j)
      ELSE 0

\* evict: the index at which the while loop over a list stops, 0 if it runs
\* to the end.
ScanStop(t, s) ==
    IF \E i \in 1..Len(s) : ScanTakes(t, s, i)
      THEN CHOOSE i \in 1..Len(s) :
              ScanTakes(t, s, i) /\ \A j \in 1..(i - 1) : ~ScanTakes(t, s, j)
      ELSE 0

\* evict: the frame it returns, 0 for None.
EvictVictim(r) ==
    IF ScanStop(r.pin_table, r.mru_list) > 0
      THEN r.mru_list[ScanStop(r.pin_table, r.mru_list)]
    ELSE IF ScanStop(r.pin_table, r.mfu_list) > 0
      THEN r.mfu_list[ScanStop(r.pin_table, r.mfu_list)]
    ELSE 0

\* evict: the lists and the table it leaves.
Evicted(r) ==
    IF ScanStop(r.pin_table, r.mru_list) > 0
      THEN LET idx == ScanStop(r.pin_table, r.mru_list)
               candt == r.mru_list[idx]
           IN  [r EXCEPT !.mru_list = RemoveAt(@, idx),
                         !.mru_ghost_list = Append(@, candt),
                         !.pin_table = [@ EXCEPT ![candt].arc_status = "MRUGhost"]]
    ELSE IF ScanStop(r.pin_table, r.mfu_list) > 0
      THEN LET idx == ScanStop(r.pin_table, r.mfu_list)
               candt == r.mfu_list[idx]
           IN  [r EXCEPT !.mfu_list = RemoveAt(@, idx),
                         !.mfu_ghost_list = Append(@, candt),
                         !.pin_table = [@ EXCEPT ![candt].arc_status = "MFUGhost"]]
    ELSE r

\* evict(&mut self) -> Option<FrameId>
Evict ==
    /\ BecomeArc(Evicted(Arc))
    /\ arc_ret' = IF EvictVictim(Arc) = 0
                    THEN ArcRet("evict", 0, "None", 0)
                    ELSE ArcRet("evict", 0, "Some", EvictVictim(Arc))
    /\ UNCHANGED replacer_size
    /\ UNCHANGED <<dmVars, procVars, calls, histVars, schedVars, crowd, poolVars>>

\* record_access(&mut self, frame_id, page_id, _access_type): the body is empty.
RecordAccess(f, p, t) ==
    /\ arc_ret' = ArcRet("record_access", f, "Unit", 0)
    /\ UNCHANGED <<replacer_size, mru_list, mfu_list, mru_ghost_list, mfu_ghost_list, pin_table>>
    /\ UNCHANGED <<dmVars, procVars, calls, histVars, schedVars, crowd, poolVars>>

\* Mutant: the flag of every tracked frame is written.
WithFlagAll(t, f, e) == [g \in DOMAIN t |-> [t[g] EXCEPT !.evictable = e]]

\* set_keep / set_evicted: get_mut(&frame_id), status.evictable = e.
WithFlag(t, f, e) == IF f \in DOMAIN t THEN [t EXCEPT ![f].evictable = e] ELSE t

\* set_keep: the lists and the table it leaves.
Kept(r, f) == [r EXCEPT !.pin_table = WithFlag(@, f, FALSE)]

\* set_evicted: the lists and the table it leaves.
MadeEvictable(r, f) == [r EXCEPT !.pin_table = WithFlag(@, f, TRUE)]

\* set_keep(&mut self, frame_id) -> Result<()>
SetKeep(f) ==
    /\ BecomeArc(Kept(Arc, f))
    /\ arc_ret' = ArcRet("set_keep", f, "Ok", 0)
    /\ UNCHANGED replacer_size
    /\ UNCHANGED <<dmVars, procVars, calls, histVars, schedVars, crowd, poolVars>>

\* set_evicted(&mut self, frame_id) -> Result<()>
SetEvicted(f) ==
    /\ BecomeArc(MadeEvictable(Arc, f))
    /\ arc_ret' = ArcRet("set_evicted", f, "Ok", 0)
    /\ UNCHANGED replacer_size
    /\ UNCHANGED <<dmVars, procVars, calls, histVars, schedVars, crowd, poolVars>>

\* Mutant: the evictable check of remove is skipped.
RemoveRefusesNone(t, f) == FALSE

\* remove: the check that refuses a frame whose flag is false.
RemoveRefuses(t, f) == ~t[f].evictable

\* remove: what it returns.
RemoveResult(r, f) ==
    IF f \in DOMAIN r.pin_table
      THEN IF RemoveRefuses(r.pin_table, f) THEN "NotEvictable" ELSE "Ok"
      ELSE "NotFound"

\* remove: the lists and the table it leaves.
Removed(r, f) ==
    IF f \in DOMAIN r.pin_table /\ ~RemoveRefuses(r.pin_table, f)
      THEN LET st == r.pin_table[f].arc_status
           IN  [mru_list |-> IF st = "MRU" THEN Without(r.mru_list, f) ELSE r.mru_list,
                mfu_list |-> IF st = "MFU" THEN Without(r.mfu_list, f) ELSE r.mfu_list,
                mru_ghost_list |->
                    IF st = "MRUGhost" THEN Without(r.mru_ghost_list, f) ELSE r.mru_ghost_list,
                mfu_ghost_list |->
                    IF st = "MFUGhost" THEN Without(r.mfu_ghost_list, f) ELSE r.mfu_ghost_list,
                pin_table |-> MapRemove(r.pin_table, f)]
      ELSE r

\* remove(&mut self, frame_id) -> Result<()>
Remove(f) ==
    /\ BecomeArc(Removed(Arc, f))
    /\ arc_ret' = ArcRet("remove", f, RemoveResult(Arc, f), 0)
    /\ UNCHANGED replacer_size
    /\ UNCHANGED <<dmVars, procVars, calls, histVars, schedVars, crowd, poolVars>>

\* size: pin_table.values().filter(|status| status.evictable).count()
EvictableCount(t) == Cardinality({f \in DOMAIN t : t[f].evictable})

\* size(&self) -> usize
Size ==
    /\ arc_ret' = ArcRet("size", 0, "Count", EvictableCount(pin_table))
    /\ UNCHANGED <<replacer_size, mru_list, mfu_list, mru_ghost_list, mfu_ghost_list, pin_table>>
    /\ UNCHANGED <<dmVars, procVars, calls, histVars, schedVars, crowd, poolVars>>

\* delete_ghost(&mut self), a private method that no method calls: the two
\* ghost lists it would leave.
DeleteGhost(c, g1, g2) ==
    IF Len(g1) > c THEN <<Tail(g1), g2>>
    ELSE IF Len(g2) > c THEN <<g1, Tail(g2)>>
    ELSE <<g1, g2>>

\* The orders in which a set of frames can stand in a list.
Orders(S) ==
    {s \in [1..Cardinality(S) -> S] : \A i, j \in 1..Cardinality(S) : i # j => s[i] # s[j]}

InList(s) == {s[i] : i \in 1..Len(s)}

\* Every tracked frame stands once in the list its status names, and the
\* lists hold nothing else.
ListsMatchTable ==
    /\ \A f \in Tracked : pin_table[f].arc_status \in ArcStatuses
    /\ mru_list \in Orders({f \in Tracked : pin_table[f].arc_status = "MRU"})
    /\ mfu_list \in Orders({f \in Tracked : pin_table[f].arc_status = "MFU"})
    /\ mru_ghost_list \in Orders({f \in Tracked : pin_table[f].arc_status = "MRUGhost"})
    /\ mfu_ghost_list \in Orders({f \in Tracked : pin_table[f].arc_status = "MFUGhost"})

\* A replacer of capacity at most MaxReplacerSize over the frame ids, with no
\* ghost list longer than its capacity.
InitArc ==
    /\ InitDisk
    /\ PoolNew
    /\ replacer_size \in 1..MaxReplacerSize
    /\ \E S \in SUBSET FrameIds :
          pin_table \in [S -> {FrameStatus(e, st) : e \in BOOLEAN, st \in ArcStatuses}]
    /\ mru_list \in Orders({f \in Tracked : pin_table[f].arc_status = "MRU"})
    /\ mfu_list \in Orders({f \in Tracked : pin_table[f].arc_status = "MFU"})
    /\ mru_ghost_list \in Orders({f \in Tracked : pin_table[f].arc_status = "MRUGhost"})
    /\ mfu_ghost_list \in Orders({f \in Tracked : pin_table[f].arc_status = "MFUGhost"})
    /\ Len(mru_ghost_list) <= replacer_size
    /\ Len(mfu_ghost_list) <= replacer_size
    /\ arc_ret = NoArcRet

NextArc ==
    \/ Evict
    \/ \E f \in FrameIds, p \in PageIds, t \in AccessTypes : RecordAccess(f, p, t)
    \/ \E f \in FrameIds : SetKeep(f)
    \/ \E f \in FrameIds : SetEvicted(f)
    \/ \E f \in FrameIds : Remove(f)
    \/ Size

SpecArc == InitArc /\ [][NextArc]_vars

----------------------------------------------------------------------------
(* Buffer Pool Manager.  buffer_pool_manager.rs holds a header comment and *)
(* no code, so the pool is written from its design (section 4.2): a page   *)
(* table, a free-frame list seeded with every frame and a pin count and a  *)
(* dirty flag for each frame.  It calls the replacer above through evict,  *)
(* set_keep, set_evicted and remove.  record_access has no body in the     *)
(* source; the pool records an access as the design describes it (4.1),    *)
(* and where the design leaves a choice open every choice is an outcome.   *)
(* A call runs under the directory lock and is one step.  The disk         *)
(* requests of a call (flush of a dirty victim, fetch of the page) are     *)
(* taken to complete with Ok: the design does not say what a failed        *)
(* request leaves of the pool.  Frame ids run from 1 to PoolSize.          *)

Max(a, b) == IF a >= b THEN a ELSE b

\* record_access, case 1: a resident frame moves to the most-recently-used
\* end of the frequency list.
Promoted(r, f) ==
    [r EXCEPT !.mru_list = Without(@, f),
              !.mfu_list = Append(Without(@, f), f),
              !.pin_table = [@ EXCEPT ![f].arc_status = "MFU"]]

\* record_access, cases 2 and 3: one victim is evicted, then the ghost leaves
\* its ghost list for the most-recently-used end of the frequency list.
GhostHit(r, f) ==
    [Evicted(r) EXCEPT !.mru_ghost_list = Without(@, f),
                       !.mfu_ghost_list = Without(@, f),
                       !.mfu_list = Append(@, f),
                       !.pin_table = [@ EXCEPT ![f].arc_status = "MFU"]]

\* record_access, case 2: the new target after a hit in the recency-ghost list.
TargetUp(c, r, p) ==
    Min(c, p + Max(1, Len(r.mfu_ghost_list) \div Len(r.mru_ghost_list)))

\* record_access, case 3: the new target after a hit in the frequency-ghost list.
TargetDown(c, r, p) ==
    Max(0, p - Max(1, Len(r.mru_ghost_list) \div Len(r.mfu_ghost_list)))

\* record_access, case 4: the room made before a new frame is admitted.  When
\* the recency partition counts as at capacity is left open, so each of the
\* three is an outcome: nothing is evicted, the least-recent recency ghost is
\* dropped, or a victim is evicted from the recency list.
RoomMade(r) ==
    {r}
        \cup (IF r.mru_ghost_list # <<>>
                THEN {[r EXCEPT !.mru_ghost_list = Tail(@),
                                !.pin_table = MapRemove(@, Head(r.mru_ghost_list))]}
                ELSE {})
        \cup (IF ScanStop(r.pin_table, r.mru_list) > 0 THEN {Evicted(r)} ELSE {})

\* record_access, case 4: the frame is admitted at the most-recently-used end
\* of the recency list; its caller pins it at once.
Admitted(r, f) ==
    [r EXCEPT !.mru_list = Append(@, f),
              !.pin_table = MapInsert(@, f, FrameStatus(FALSE, "MRU"))]

\* record_access as designed: the replacers and targets it can leave for
\* frame f, the four cases in order.
AccessOutcomes(c, r, p, f) ==
    IF f \in InList(r.mru_list) \cup InList(r.mfu_list)
      THEN {[arc |-> Promoted(r, f), target |-> p]}
    ELSE IF f \in InList(r.mru_ghost_list)
      THEN {[arc |-> GhostHit(r, f), target |-> TargetUp(c, r, p)]}
    ELSE IF f \in InList(r.mfu_ghost_list)
      THEN {[arc |-> GhostHit(r, f), target |-> TargetDown(c, r, p)]}
    ELSE {[arc |-> Admitted(r2, f), target |-> p] : r2 \in RoomMade(r)}

\* Mutant: the victim's page keeps its directory entry.
UnmappedNothing(t, f) == t

\* The page table without the page that frame f held.
Unmapped(t, f) == [q \in {q \in DOMAIN t : t[q] # f} |-> t[q]]

\* Frame acquisition of a miss: the frame (0: none), the free list and the
\* replacer it leaves.  The free list is popped if it is non-empty,
\* otherwise evict() is called.
AcquireFrame ==
    IF free_list # <<>>
      THEN [frame |-> Popped(free_list), free |-> AfterPop(free_list), arc |-> Arc]
      ELSE [frame |-> EvictVictim(Arc), free |-> free_list, arc |-> Evicted(Arc)]

\* The miss path from the acquired frame on: PoolExhausted if there is none;
\* otherwise a dirty victim is flushed, the old mapping is removed, the new
\* one installed and the frame pinned.
Install(op, p, a, v) ==
    /\ IF a.frame = 0
         THEN /\ bpm_ret' = PoolRet(op, p, "PoolExhausted", 0)
              /\ arc_ret' = ArcRet("evict", 0, "None", 0)
              /\ UNCHANGED <<mru_list, mfu_list, mru_ghost_list, mfu_ghost_list, pin_table>>
              /\ UNCHANGED <<page_table, free_list, pin_count, is_dirty>>
         ELSE /\ free_list' = a.free
              /\ page_table' = MapInsert(Unmapped(page_table, a.frame), p, a.frame)
              /\ is_dirty' = [is_dirty EXCEPT ![a.frame] = FALSE]
              /\ pin_count' = [pin_count EXCEPT ![a.frame] = @ + 1]
              /\ BecomeArc(Kept(a.arc, a.frame))
              /\ arc_ret' = ArcRet("set_keep", a.frame, "Ok", 0)
              /\ bpm_ret' = PoolRet(op, p, "Ok", IF v = 0 THEN a.frame ELSE v)
    /\ UNCHANGED <<replacer_size, target_p>>
    /\ UNCHANGED <<dmVars, procVars, calls, histVars, schedVars, crowd>>

\* fetch_page on a directory hit: an access is recorded, the frame is marked
\* non-evictable and pinned.
FetchHit(p) ==
    LET f == page_table[p]
    IN  /\ pin_count[f] < MaxPins
        /\ \E o \in AccessOutcomes(replacer_size, Arc, target_p, f) :
              /\ BecomeArc(Kept(o.arc, f))
              /\ target_p' = o.target
        /\ arc_ret' = ArcRet("set_keep", f, "Ok", 0)
        /\ pin_count' = [pin_count EXCEPT ![f] = @ + 1]
        /\ bpm_ret' = PoolRet("fetch_page", p, "Ok", f)
        /\ UNCHANGED <<replacer_size, page_table, free_list, is_dirty>>
        /\ UNCHANGED <<dmVars, procVars, calls, histVars, schedVars, crowd>>

\* fetch_page(page_id) -> Frame
FetchPage(p) ==
    IF p \in DOMAIN page_table
      THEN FetchHit(p)
      ELSE Install("fetch_page", p, AcquireFrame, 0)

\* new_page() -> PageId: the allocator's id names no resident page.
NewPage ==
    \E p \in PoolPageIds \ DOMAIN page_table : Install("new_page", p, AcquireFrame, p)

\* unpin_page(page_id, is_dirty), by a client that holds the page pinned.
UnpinPage(p, d) ==
    /\ p \in DOMAIN page_table
    /\ pin_count[page_table[p]] > 0
    /\ LET f == page_table[p]
       IN  /\ pin_count' = [pin_count EXCEPT ![f] = @ - 1]
           /\ is_dirty' = [is_dirty EXCEPT ![f] = @ \/ d]
           /\ IF pin_count[f] = 1
                THEN /\ BecomeArc(MadeEvictable(Arc, f))
                     /\ arc_ret' = ArcRet("set_evicted", f, "Ok", 0)
                ELSE UNCHANGED <<mru_list, mfu_list, mru_ghost_list, mfu_ghost_list,
                                 pin_table, arc_ret>>
           /\ bpm_ret' = PoolRet("unpin_page", p, "Ok", f)
    /\ UNCHANGED <<replacer_size, target_p, page_table, free_list>>
    /\ UNCHANGED <<dmVars, procVars, calls, histVars, schedVars, crowd>>

\* flush_page(page_id)
FlushPage(p) ==
    /\ IF p \in DOMAIN page_table
         THEN /\ is_dirty' = [is_dirty EXCEPT ![page_table[p]] = FALSE]
              /\ bpm_ret' = PoolRet("flush_page", p, "Ok", page_table[p])
         ELSE /\ bpm_ret' = PoolRet("flush_page", p, "PageNotFound", 0)
              /\ UNCHANGED is_dirty
    /\ UNCHANGED <<arcVars, target_p, page_table, free_list, pin_count>>
    /\ UNCHANGED <<dmVars, procVars, calls, histVars, schedVars, crowd>>

\* delete_page(page_id)
DeletePage(p) ==
    /\ IF p \notin DOMAIN page_table
         THEN /\ bpm_ret' = PoolRet("delete_page", p, "PageNotFound", 0)
              /\ UNCHANGED <<arcVars, page_table, free_list, is_dirty>>
         ELSE IF pin_count[page_table[p]] > 0
         THEN /\ bpm_ret' = PoolRet("delete_page", p, "Pinned", page_table[p])
              /\ UNCHANGED <<arcVars, page_table, free_list, is_dirty>>
         ELSE LET f == page_table[p]
              IN  /\ page_table' = MapRemove(page_table, p)
                  /\ BecomeArc(Removed(Arc, f))
                  /\ arc_ret' = ArcRet("remove", f, RemoveResult(Arc, f), 0)
                  /\ free_list' = Append(free_list, f)
                  /\ is_dirty' = [is_dirty EXCEPT ![f] = FALSE]
                  /\ bpm_ret' = PoolRet("delete_page", p, "Ok", f)
                  /\ UNCHANGED replacer_size
    /\ UNCHANGED <<target_p, pin_count>>
    /\ UNCHANGED <<dmVars, procVars, calls, histVars, schedVars, crowd>>

\* A pool of PoolSize frames over a replacer of that capacity.
InitPool == InitDisk /\ ArcNew(PoolSize) /\ PoolNew

NextPool ==
    \/ \E p \in PoolPageIds : FetchPage(p)
    \/ NewPage
    \/ \E p \in PoolPageIds, d \in BOOLEAN : UnpinPage(p, d)
    \/ \E p \in PoolPageIds : FlushPage(p)
    \/ \E p \in PoolPageIds : DeletePage(p)

SpecPool == InitPool /\ [][NextPool]_vars

----------------------------------------------------------------------------
(* Claims about the Disk Manager *)

\* A read that had bytes to return (a write of its page returned Ok, undisturbed
\* by any other write or delete of that page, before the read began and until
\* it ended) and met no file error returned Ok with those bytes.
ReadsReturnCommitted ==
    \A x \in Procs :
        (result[x].op = "read" /\ expect[x] # 0 /\ result[x].res # "IoError")
            => (result[x].res = "Ok" /\ result[x].val = expect[x])

\* C1: after write_page(p, b) returned Ok, a read_page(p) with no intervening
\* write_page(p) or delete_page(p) returns Ok with exactly b, whatever was
\* written, deleted or reused on other pages in between.
C1_RoundTrip == ReadsReturnCommitted

\* C2: write_page calls running concurrently on pairwise distinct page ids all
\* end Ok (or with a file error), every page id has an offset of its own, also
\* the offsets the running calls hold, and a later read_page of each page
\* returns the bytes written for it.
C2_ConcurrentDistinctWrites ==
    /\ \A x \in Procs : result[x].op = "write" => result[x].res \in {"Ok", "IoError"}
    /\ \A p, q \in DOMAIN pages : p # q => pages[p] # pages[q]
    /\ \A x, y \in Procs :
          (x # y /\ pc[x] \in {"w_io", "w_stats"} /\ pc[y] \in {"w_io", "w_stats"})
              => off[x] # off[y]
    /\ ReadsReturnCommitted

\* C2 witness: two write_page calls overlapped, both pages are committed, and
\* after two writes and two reads a read returned the committed bytes.
C2_Witness ==
    /\ raced
    /\ stats.num_writes = 2 /\ stats.num_reads = 2
    /\ \A p \in {1, 2} : p \in DOMAIN pages /\ committed[p] # 0
    /\ \E x \in Procs :
          result[x].op = "read" /\ result[x].res = "Ok" /\ result[x].val = expect[x]

\* C3: no two page ids of the offset table map to the same byte offset.
C3_OffsetsUnique ==
    \A p, q \in DOMAIN pages : p # q => pages[p] # pages[q]

\* C8: a read_page that finds no offset for its page returns PageNotFound with
\* that id, gives its permit back and leaves the offset table, the free-slot
\* pool, the capacity, the counters and the file as they were; taking the
\* permit at its start changed none of them either.
ReadMissingStep(x) ==
    (pc[x] = "r_lookup" /\ pc'[x] # "r_lookup" /\ page[x] \notin DOMAIN pages)
        => /\ result'[x] = Outcome("read", "PageNotFound", page[x], 0)
           /\ pc'[x] = AfterCall(x)
           /\ dm_permits' = dm_permits + 1
           /\ UNCHANGED <<pages, free_slots, page_capacity, stats, file>>

ReadStartStep(x) ==
    (pc[x] # "r_lookup" /\ pc'[x] = "r_lookup")
        => /\ dm_permits' = dm_permits - 1
           /\ UNCHANGED <<pages, free_slots, page_capacity, stats, file>>

C8_ReadMissingChangesNothing ==
    [][\A x \in Procs : ReadMissingStep(x) /\ ReadStartStep(x)]_vars

\* C8 witness: a read of a page that was written and then deleted returned
\* PageNotFound, and every permit is back.
C8_Witness ==
    \E x \in Procs :
        /\ result[x].op = "read" /\ result[x].res = "PageNotFound"
        /\ result[x].page \notin DOMAIN pages
        /\ stats.num_deletes = 1 /\ free_slots # <<>>
        /\ dm_permits = DmPermitCount

\* C9: an allocation that finds the free-slot pool non-empty takes the most
\* recently freed offset, the pool shrinks by exactly that one, the offset
\* becomes the page's mapping; after a delete_page returned Ok the pool is
\* non-empty; and a read of the page then returns the bytes just written.
ReusePopStep(x) ==
    (pc[x] = "a_free" /\ pc'[x] # "a_free" /\ free_slots # <<>>)
        => /\ pc'[x] = "a_reuse"
           /\ off'[x] = free_slots[Len(free_slots)]
           /\ free_slots' = SubSeq(free_slots, 1, Len(free_slots) - 1)

ReuseInsertStep(x) ==
    (pc[x] = "a_reuse" /\ pc'[x] # "a_reuse")
        => /\ page[x] \in DOMAIN pages' /\ pages'[page[x]] = off[x]
           /\ \A q \in DOMAIN pages \ {page[x]} : pages[q] # off[x]

DeletedSlotIsPooled ==
    \A x \in Procs :
        (Quiet /\ result[x].op = "delete" /\ result[x].res = "Ok") => free_slots # <<>>

C9_FreeSlotReuse ==
    /\ [][\A x \in Procs : ReusePopStep(x) /\ ReuseInsertStep(x)]_vars
    /\ [](DeletedSlotIsPooled /\ ReadsReturnCommitted)

\* C9 witness: page 1 was written and deleted, page 2 then took its slot at
\* offset 0, and a read of page 2 returned the bytes written to it.
C9_Witness ==
    /\ stats.num_deletes = 1 /\ stats.num_writes = 2
    /\ free_slots = <<>> /\ DOMAIN pages = {2} /\ pages[2] = 0
    /\ \E x \in Procs :
          /\ result[x].op = "read" /\ result[x].res = "Ok"
          /\ expect[x] # 0 /\ result[x].val = expect[x]

\* C10: while a delete_page has removed its page's mapping and not yet
\* returned, the offset it releases is given to no other page, and no two
\* pages share an offset.
C10_NoEarlyReuse ==
    \A d \in Procs :
        pc[d] \in DeletePcs =>
            /\ \A q \in DOMAIN pages : q # page[d] => pages[q] # off[d]
            /\ \A p, q \in DOMAIN pages : p # q => pages[p] # pages[q]

----------------------------------------------------------------------------
(* Claims about the Disk Scheduler *)

\* The write request whose bytes a read request r of page p has to see: the
\* last write of p enqueued before r.
LastWriteBefore(r) ==
    {w \in 1..(r - 1) :
        /\ req[w].is_write /\ req[w].page_id = req[r].page_id
        /\ \A v \in (w + 1)..(r - 1) : ~(req[v].is_write /\ req[v].page_id = req[r].page_id)}

WritesOf(p) == {w \in RequestIds : req[w] # NoRequest /\ req[w].is_write /\ req[w].page_id = p}

\* C4: a read request enqueued after a write request of the same page, both
\* completed without a file error (and with no other write of the page among
\* the requests), delivers Ok with the bytes of that write; and when every
\* task has ended, a page whose writes all returned Ok holds the bytes of the
\* write enqueued last.
C4_PerPageOrder ==
    /\ \A r \in RequestIds : \A w \in LastWriteBefore(r) :
          (/\ ~req[r].is_write
           /\ WritesOf(req[r].page_id) = {w}
           /\ chan[w].state = "sent" /\ chan[w].msg.res = "Ok"
           /\ chan[r].state = "sent" /\ chan[r].msg.res # "IoError")
              => (chan[r].msg.res = "Ok" /\ chan[r].msg.val = req[w].data.fill)
    /\ \A p \in PageIds :
          (/\ WritesOf(p) # {}
           /\ \A w \in WritesOf(p) : chan[w].state = "sent" /\ chan[w].msg.res = "Ok")
              => (p \in DOMAIN pages
                  /\ \A w \in WritesOf(p) :
                        (\A v \in WritesOf(p) : v <= w)
                            => FileAt(file, pages[p]) = req[w].data.fill)

\* C5: every request is drained by at most one schedule call, at most one
\* result is sent on its channel, and once its task has ended exactly one
\* result has been delivered.
C5_ExactlyOnce ==
    \A r \in RequestIds :
        /\ dequeues[r] <= 1
        /\ sends[r] <= 1
        /\ TaskEnded(r) => (sends[r] = 1 /\ chan[r].state = "sent")

\* C6: at most 10 tasks are past the scheduler's permit and at most 10
\* write_page/read_page calls, of tasks and direct callers together, are past
\* the Disk Manager's permit; no permit count goes below zero.
C6_BoundedConcurrency ==
    /\ crowd["dm_wait"] + crowd["dm_io"] + crowd["sending"] <= SchedPermitCount
    /\ crowd["dm_io"] + crowd["direct_io"] <= DmPermitCount
    /\ sched_permits = SchedPermitCount - (crowd["dm_wait"] + crowd["dm_io"] + crowd["sending"])
    /\ dm_permits = DmPermitCount - (crowd["dm_io"] + crowd["direct_io"])

\* C6 witness: both semaphores are exhausted while a spawned task and a direct
\* caller are kept waiting.
C6_Witness ==
    /\ sched_permits = 0 /\ crowd["spawned"] > 0
    /\ dm_permits = 0 /\ crowd["direct_wait"] > 0
    /\ crowd["dm_io"] > 0 /\ crowd["direct_io"] > 0

\* C7: every enqueued request is eventually drained from the queue, and a
\* result is eventually delivered on its channel.
C7_RequestLiveness ==
    \A r \in RequestIds :
        /\ (req[r] # NoRequest) ~> (dequeues[r] = 1)
        /\ (req[r] # NoRequest) ~> (chan[r].state = "sent")

\* What holds of C7 under SpecLive: every enqueued request is eventually
\* drained, and a request whose buffer is one page long eventually has its
\* result delivered.
RequestsAreDequeued ==
    \A r \in RequestIds : (req[r] # NoRequest) ~> (dequeues[r] = 1)

SizedRequestsAreAnswered ==
    \A r \in RequestIds :
        (req[r] # NoRequest /\ req[r].data.len = GRIMOIRE_PAGE_SIZE)
            ~> (chan[r].state = "sent")

----------------------------------------------------------------------------
(* Claims about the ARC replacer *)

Resident == InList(mru_list) \cup InList(mfu_list)

Ghosts == InList(mru_ghost_list) \cup InList(mfu_ghost_list)

EvictableIn(s) == {i \in 1..Len(s) : s[i] \in Tracked /\ pin_table[s[i]].evictable}

Least(S) == CHOOSE i \in S : \A j \in S : i <= j

\* The list s with frame f taken out, the other frames in their order.
Minus(s, f) == LET Keep(x) == x # f IN SelectSeq(s, Keep)

\* The four lists hold, apart from frame f, the same frames in the same order,
\* and the table gives every frame other than f the same entry.
OthersKept(f) ==
    /\ Minus(mru_list', f) = Minus(mru_list, f)
    /\ Minus(mfu_list', f) = Minus(mfu_list, f)
    /\ Minus(mru_ghost_list', f) = Minus(mru_ghost_list, f)
    /\ Minus(mfu_ghost_list', f) = Minus(mfu_ghost_list, f)
    /\ DOMAIN pin_table' \ {f} = Tracked \ {f}
    /\ \A g \in Tracked \ {f} : pin_table'[g] = pin_table[g]

ReplacerUnchanged ==
    UNCHANGED <<replacer_size, mru_list, mfu_list, mru_ghost_list, mfu_ghost_list, pin_table>>

EvictedSome == arc_ret'.op = "evict" /\ arc_ret'.res = "Some"

\* C11: the frame evict returns was tracked with its evictable flag true and
\* stood in the recency or the frequency list when evict was called.
C11_EvictOnlyEvictable ==
    [][EvictedSome =>
          /\ arc_ret'.val \in Tracked
          /\ pin_table[arc_ret'.val].evictable
          /\ arc_ret'.val \in Resident
          /\ arc_ret'.val \notin Ghosts]_vars

\* C11 witness: evict returned a frame of the recency list although a frame
\* whose flag is false stands at the head of that list.
C11_Witness ==
    /\ arc_ret.op = "evict" /\ arc_ret.res = "Some"
    /\ mru_ghost_list # <<>> /\ mru_ghost_list[Len(mru_ghost_list)] = arc_ret.val
    /\ mru_list # <<>> /\ ~pin_table[mru_list[1]].evictable
    /\ pin_table[arc_ret.val].evictable

\* C12: after evict returned Some(f), f stands at the most-recent end of the
\* ghost list of the list it was taken from and nowhere else, its status names
\* that ghost list, and every other frame keeps its list, its order and its flag.
C12_EvictedIsGhost ==
    [][EvictedSome =>
          LET f == arc_ret'.val
          IN  /\ f \notin InList(mru_list') \cup InList(mfu_list')
              /\ IF f \in InList(mru_list)
                   THEN /\ mru_ghost_list' = Append(mru_ghost_list, f)
                        /\ f \notin InList(mfu_ghost_list')
                        /\ pin_table'[f].arc_status = "MRUGhost"
                   ELSE /\ f \in InList(mfu_list)
                        /\ mfu_ghost_list' = Append(mfu_ghost_list, f)
                        /\ f \notin InList(mru_ghost_list')
                        /\ pin_table'[f].arc_status = "MFUGhost"
              /\ pin_table'[f].evictable = pin_table[f].evictable
              /\ OthersKept(f)]_vars

\* C12 witness: evict took a frame of the frequency list, which now ends the
\* frequency-ghost list behind an older ghost, while a resident frame remains.
C12_Witness ==
    /\ arc_ret.op = "evict" /\ arc_ret.res = "Some"
    /\ Len(mfu_ghost_list) >= 2 /\ mfu_ghost_list[Len(mfu_ghost_list)] = arc_ret.val
    /\ pin_table[arc_ret.val].arc_status = "MFUGhost"
    /\ Resident # {}

\* C13: evict returns the evictable frame nearest the front of the recency
\* list if there is one, else the one nearest the front of the frequency list,
\* and None, changing nothing, exactly when neither list holds one.
C13_VictimSelection ==
    [][arc_ret'.op = "evict" =>
          IF EvictableIn(mru_list) # {}
            THEN arc_ret'.res = "Some" /\ arc_ret'.val = mru_list[Least(EvictableIn(mru_list))]
          ELSE IF EvictableIn(mfu_list) # {}
            THEN arc_ret'.res = "Some" /\ arc_ret'.val = mfu_list[Least(EvictableIn(mfu_list))]
          ELSE arc_ret'.res = "None" /\ ReplacerUnchanged]_vars

\* C13 witness: evict returned None from a replacer that tracks pinned
\* resident frames and an evictable ghost.
C13_Witness ==
    /\ arc_ret.op = "evict" /\ arc_ret.res = "None"
    /\ mru_list # <<>> /\ mfu_list # <<>>
    /\ \E g \in Ghosts : pin_table[g].evictable

\* C14: remove of a tracked frame whose flag is false returns the
\* not-evictable error and changes no list, no entry and no flag.
C14_RemovePinned ==
    [][\A f \in FrameIds :
          (arc_ret'.op = "remove" /\ arc_ret'.arg = f /\ f \in Tracked /\ ~pin_table[f].evictable)
              => (arc_ret'.res = "NotEvictable" /\ ReplacerUnchanged)]_vars

\* C14 witness: remove of a pinned resident frame returned the error.
C14_Witness ==
    /\ arc_ret.op = "remove" /\ arc_ret.res = "NotEvictable"
    /\ arc_ret.arg \in Resident /\ ~pin_table[arc_ret.arg].evictable

\* C15: remove of a tracked frame whose flag is true returns Ok; the frame is
\* then in no list and has no entry, and every other frame keeps its list,
\* its order and its flag.
C15_RemoveEvictable ==
    [][\A f \in FrameIds :
          (arc_ret'.op = "remove" /\ arc_ret'.arg = f /\ f \in Tracked /\ pin_table[f].evictable)
              => /\ arc_ret'.res = "Ok"
                 /\ f \notin DOMAIN pin_table'
                 /\ f \notin InList(mru_list') \cup InList(mfu_list')
                 /\ f \notin InList(mru_ghost_list') \cup InList(mfu_ghost_list')
                 /\ OthersKept(f)]_vars

\* C15 witness: remove returned Ok for a frame now untracked, and two frames
\* still stand in one list.
C15_Witness ==
    /\ arc_ret.op = "remove" /\ arc_ret.res = "Ok" /\ arc_ret.arg \notin Tracked
    /\ Len(mru_list) >= 2

C17_RecordAccess ==
    [][\A f \in FrameIds :
          (arc_ret'.op = "record_access" /\ arc_ret'.arg = f)
              => /\ f \in Resident =>
                       /\ mfu_list' = Append(Minus(mfu_list, f), f)
                       /\ mru_list' = Minus(mru_list, f)
                       /\ pin_table'[f].arc_status = "MFU"
                 /\ f \notin Tracked =>
                       /\ mru_list' = Append(mru_list, f)
                       /\ f \in DOMAIN pin_table'
                       /\ pin_table'[f].arc_status = "MRU"]_vars

C20_FlagOnly ==
    [][\A f \in FrameIds :
          (arc_ret'.op \in {"set_keep", "set_evicted"} /\ arc_ret'.arg = f)
              => /\ arc_ret'.res = "Ok"
                 /\ UNCHANGED <<replacer_size, mru_list, mfu_list, mru_ghost_list, mfu_ghost_list>>
                 /\ DOMAIN pin_table' = Tracked
                 /\ \A g \in Tracked \ {f} : pin_table'[g] = pin_table[g]
                 /\ f \in Tracked =>
                       /\ pin_table'[f].arc_status = pin_table[f].arc_status
                       /\ pin_table'[f].evictable = (arc_ret'.op = "set_evicted")]_vars

\* C20 witness: set_keep cleared the flag of a frame that stands second in the
\* recency list behind a frame whose flag is still true.
C20_Witness ==
    /\ arc_ret.op = "set_keep" /\ arc_ret.res = "Ok"
    /\ Len(mru_list) >= 2 /\ mru_list[2] = arc_ret.arg
    /\ ~pin_table[arc_ret.arg].evictable
    /\ pin_table[mru_list[1]].evictable

\* The number of places at which frame f stands in list s.
Occurrences(s, f) == Cardinality({i \in 1..Len(s) : s[i] = f})

\* The list that a status tag names.
ListOf(st) ==
    IF st = "MRU" THEN mru_list
    ELSE IF st = "MFU" THEN mfu_list
    ELSE IF st = "MRUGhost" THEN mru_ghost_list
    ELSE mfu_ghost_list

\* C21: every tracked frame stands exactly once in the list its status tag
\* names and in none of the other three lists; evict, remove, set_keep,
\* set_evicted and record_access keep it so.
C21_ListMembership ==
    \A f \in Tracked :
        /\ pin_table[f].arc_status \in ArcStatuses
        /\ Occurrences(ListOf(pin_table[f].arc_status), f) = 1
        /\ Occurrences(mru_list, f) + Occurrences(mfu_list, f)
              + Occurrences(mru_ghost_list, f) + Occurrences(mfu_ghost_list, f) = 1

\* C21 witness: after a remove that returned Ok, the frames still tracked
\* stand in a resident list and in a ghost list.
C21_Witness ==
    /\ arc_ret.op = "remove" /\ arc_ret.res = "Ok"
    /\ Resident # {} /\ Ghosts # {}
    /\ Cardinality(Tracked) >= 2

----------------------------------------------------------------------------
(* Claims about the Buffer Pool Manager *)

\* No frame of the recency or the frequency list has its evictable flag set.
NoEvictableFrame == EvictableIn(mru_list) = {} /\ EvictableIn(mfu_list) = {}

----------------------------------------------------------------------------
(* Further claims about the Disk Scheduler and the Disk Manager *)

ScheduleStarts(s) == spc[s] = "idle" /\ spc'[s] = "joining"

ScheduleReturns(s) == spc[s] = "joining" /\ spc'[s] = "idle"

\* C22: schedule(k) takes the first min(k, length) requests of the queue and
\* leaves the others queued in their order, so nothing on an empty queue or
\* with k = 0; it returns only when the task of every request it took has
\* ended; any other change of the queue is an enqueue appending one new
\* request at the tail.
C22_ScheduleTakesHead ==
    [][/\ \A s \in Schedulers :
             ScheduleStarts(s) =>
                 LET k == sched_count'[s]
                     len == Len(requests_queue)
                     n == IF k < len THEN k ELSE len
                 IN  /\ batch'[s] = {requests_queue[i] : i \in 1..n}
                     /\ Cardinality(batch'[s]) = n
                     /\ Len(requests_queue') = len - n
                     /\ \A i \in 1..(len - n) : requests_queue'[i] = requests_queue[n + i]
                     /\ (k = 0 \/ len = 0) => requests_queue' = requests_queue
       /\ \A s \in Schedulers :
             ScheduleReturns(s) => \A r \in batch[s] : pc[TaskOf(r)] \in {"done", "panicked"}
       /\ (\A s \in Schedulers : ~ScheduleStarts(s)) =>
             \/ requests_queue' = requests_queue
             \/ \E r \in RequestIds :
                   /\ \A i \in 1..Len(requests_queue) : requests_queue[i] # r
                   /\ requests_queue' = Append(requests_queue, r)]_vars

\* C22 witness: a schedule(1) call took request 1 from a queue of two, left
\* request 2 queued and waits for the task of request 1.
C22_Witness ==
    \E s \in Schedulers :
        /\ spc[s] = "joining" /\ sched_count[s] = 1
        /\ batch[s] = {1}
        /\ requests_queue = <<2>>

\* The locks a process holds across an await.
LocksHeld(x) ==
    (IF free_lock = x THEN {"free_slots"} ELSE {})
        \cup (IF table_lock = x THEN {"pages", "page_capacity"} ELSE {})

\* Positions at which the process performs or awaits a file operation.
FileOpPcs == {"a_grow", "w_io", "r_io"}

\* Positions at which a task waits for a permit.
PermitWaitPcs == {"spawned", "t_enter"}

\* C23 (no lock across I/O): no process that performs or awaits a file
\* operation (open, set_len, seek, read, write, sync), or that waits for a
\* permit, holds the lock of the offset table, of the capacity or of the
\* free-slot pool.
C23_NoLockAcrossIo ==
    \A x \in Procs : pc[x] \in FileOpPcs \cup PermitWaitPcs => LocksHeld(x) = {}

\* The counted operations that have started and not yet ended.
InFlight == CountAt(TaskPlaces \cup CallerPlaces)

\* C24 (deadlock freedom): with more tasks than the scheduler has permits and
\* a direct caller beside them, whenever an operation is in flight some
\* operation in flight can take its next step; a held free-slot lock has its
\* one holder at the reuse step and a held offset-table lock its one holder at
\* the growth step, which waits for nothing; a process that waits for a permit
\* of an exhausted semaphore waits for processes that hold its permits.
C24_DeadlockFree ==
    /\ InFlight > 0 => ENABLED LoadProgress
    /\ (free_lock # NoProc) <=> (crowd["t_reuse"] + crowd["d_reuse"] = 1)
    /\ (table_lock # NoProc) <=> (crowd["t_grow"] + crowd["d_grow"] = 1)
    /\ crowd["t_reuse"] + crowd["d_reuse"] <= 1
    /\ crowd["t_grow"] + crowd["d_grow"] <= 1
    /\ table_lock # NoProc => ENABLED (\E k \in Kinds : LoadGrow(k))
    /\ (free_lock # NoProc /\ table_lock = NoProc) => ENABLED (\E k \in Kinds : LoadReuse(k))
    /\ sched_permits = 0 =>
            CountAt(TaskPlaces \ {"spawned"}) = SchedPermitCount
    /\ dm_permits = 0 =>
            CountAt((TaskPlaces \cup CallerPlaces)
                        \ {"spawned", "dm_wait", "sending", "direct_wait", "x_pages", "x_free"})
                = DmPermitCount

\* C24 witness: both semaphores are exhausted, a task waits for each of them,
\* the offset table is locked by a growing task, a second task holds the
\* free-slot pool and waits for the table, and a third waits for the pool.
C24_Witness ==
    /\ sched_permits = 0 /\ crowd["spawned"] > 0
    /\ dm_permits = 0 /\ crowd["dm_wait"] > 0
    /\ table_lock # NoProc /\ free_lock # NoProc
    /\ crowd["t_free"] + crowd["x_free"] > 0
    /\ CountAt(CallerPlaces) > 0

\* The calls of operation o that return r in this step.
Returning(o, r) ==
    {x \in Procs : result'[x] # result[x] /\ result'[x].op = o /\ result'[x].res = r}

\* A call returns an error in this step.
FailedReturn ==
    \E x \in Procs :
        /\ (result'[x] # result[x] \/ (pc[x] = "idle" /\ calls' # calls /\ pc'[x] = "idle"))
        /\ result'[x].res \in {"PageNotFound", "IoError"}

\* C25 (statistics): in every step each counter grows by the number of calls
\* of its operation that return Ok in that step, so no counter ever
\* decreases, concurrent calls lose no update, and a step in which a call
\* returns PageNotFound or IoError changes no counter; the counters of a fresh
\* manager count no more calls than were made.
C25_CountersExact ==
    /\ [](stats.num_writes + stats.num_reads + stats.num_deletes <= calls)
    /\ [][ /\ stats'.num_writes = stats.num_writes + Cardinality(Returning("write", "Ok"))
           /\ stats'.num_reads = stats.num_reads + Cardinality(Returning("read", "Ok"))
           /\ stats'.num_deletes = stats.num_deletes + Cardinality(Returning("delete", "Ok"))
           /\ FailedReturn => stats' = stats ]_vars

\* C25 witness: no call is in flight; two write_page calls that ran together
\* and a delete_page call returned Ok and are counted, and the last call of a
\* caller failed.
C25_Witness ==
    /\ Quiet /\ raced
    /\ stats.num_writes = 2 /\ stats.num_deletes = 1
    /\ \E x \in Callers : result[x].res \in {"PageNotFound", "IoError"}

\* The page ids mapped to offset o.
MappedTo(o) == {p \in DOMAIN pages : pages[p] = o}

\* C26 (offset conservation): when no operation is in flight, every offset
\* that was handed out is mapped to exactly one page id or is exactly once in
\* the free-slot pool, every mapped or pooled offset was handed out, and the
\* size of the offset table plus the size of the pool is the number of
\* distinct offsets handed out.
C26_OffsetConservation ==
    Quiet =>
        /\ \A o \in handed : Cardinality(MappedTo(o)) + Occurrences(free_slots, o) = 1
        /\ \A p \in DOMAIN pages : pages[p] \in handed
        /\ \A i \in 1..Len(free_slots) : free_slots[i] \in handed
        /\ MapLen(pages) + Len(free_slots) = Cardinality(handed)

\* Positions at which a task holds a permit of the scheduler's semaphore.
SchedHolderPcs == {"t_enter", "t_send"} \cup DmHolderPcs

\* C27 (permit release): the permits missing from each semaphore are exactly
\* those of the operations that are past its acquire and have not ended, so a
\* task that ended (result sent, or panicked on a buffer of the wrong length)
\* and a write_page or read_page call that returned (Ok, PageNotFound or
\* IoError) hold none; when no operation is in flight both counts are 10.
C27_PermitsReturned ==
    /\ sched_permits =
            SchedPermitCount - Cardinality({t \in Tasks : pc[t] \in SchedHolderPcs})
    /\ dm_permits = DmPermitCount - Cardinality({x \in Procs : pc[x] \in DmHolderPcs})
    /\ (\A x \in Procs : pc[x] \in {"idle", "none", "done", "panicked"})
            => (sched_permits = SchedPermitCount /\ dm_permits = DmPermitCount)

\* C27 witness: one task panicked on a short buffer, the other ended after
\* its call returned an error, and both semaphores are full again.
C27_Witness ==
    /\ \E t \in Tasks : pc[t] = "panicked"
    /\ \E t \in Tasks : pc[t] = "done" /\ result[t].res \in {"PageNotFound", "IoError"}
    /\ sched_permits = SchedPermitCount
    /\ dm_permits = DmPermitCount

============================================================================
